---------------------------- MODULE Spec2Model ----------------------------
(***************************************************************************)
(* A state-machine model of scripts/flexible_freeze.py: the time-bounded   *)
(* VACUUM scheduler.  The script is one sequential process; its position   *)
(* is pc.  The database server, the clock and the operator's SIGINT are    *)
(* the environment: every answer they can give is a nondeterministic       *)
(* choice inside the action that asks.                                     *)
(*                                                                         *)
(* time.time() is a fraction of a second: the model's clock counts ticks  *)
(* of 1/Resolution second.  The clock is only observed where the script    *)
(* calls time.time(); time that passes anywhere else is the same as time   *)
(* that passes just before the next reading, so every reading picks how    *)
(* far the clock has advanced since the previous one.                      *)
(***************************************************************************)
EXTENDS Integers, Sequences, FiniteSets, TLC

----------------------------------------------------------------------------
(* Bounds of the model *)

\* clock ticks per second
Resolution == 2
\* the clock is not read beyond this many ticks after start
MaxTime == 273
\* longest --databases list (and longest list the discovery query returns)
MaxDbs == 2

\* how far the clock can have advanced between two readings, in ticks
Jumps == {0, 91, 181}

DBNames == {"d1", "d2"}
Tables == {"t1", "t2"}

\* the tables a catalog can hold when the candidate query itself is examined
CatalogTables == {"t1", "t2", "t3"}

\* one table as the candidate query sees it: the columns the two queries
\* compute per table, and whether a vacuum or autovacuum ran within the hour
Stat(age, bytes, dead, live, recent) ==
  [ freeze_age |-> age, table_bytes |-> bytes, n_dead_tup |-> dead,
    n_live_tup |-> live, vacuumed_within_hour |-> recent ]

\* old and large enough, with dead rows enough: selected in either mode
Old == Stat(20, 2^20, 200, 200, FALSE)
\* as old and as dead as Old, and larger
OldLarge == Stat(20, 2 * 2^20, 300, 300, FALSE)
\* older and with a higher dead fraction than both, no larger than Old
Older == Stat(30, 2^20, 300, 100, FALSE)
\* exactly at --freezeage and exactly at 5% dead rows
AtThreshold == Stat(10, 2 * 2^20, 101, 1919, FALSE)
\* one byte under --minsizemb
BelowFloor == Stat(30, 2^20 - 1, 300, 0, FALSE)
\* oldest, with exactly 100 dead rows
FewDead == Stat(40, 2 * 2^20, 100, 0, FALSE)
\* oldest and all dead rows, vacuumed within the hour
JustVacuumed == Stat(40, 2 * 2^20, 400, 0, TRUE)

StatsPool == {Old, OldLarge, Older, AtThreshold, BelowFloor, FewDead,
              JustVacuumed}

\* every catalog over CatalogTables
Catalogs == [CatalogTables -> StatsPool]

\* the catalogs of the runs that examine the loops: neither table, one of
\* the two, or both in either order
MainCatalogs ==
  { [t \in Tables |-> AtThreshold],
    [t \in Tables |-> IF t = "t1" THEN Old ELSE AtThreshold],
    [t \in Tables |-> IF t = "t2" THEN Old ELSE AtThreshold],
    [t \in Tables |-> IF t = "t1" THEN Older ELSE Old],
    [t \in Tables |-> IF t = "t2" THEN Older ELSE Old] }

\* the values given to --exclude-table-in-database, each already split at "."
ExcludeArgPool == {<<"d1", "t1">>, <<"d2", "t2">>, <<"d1", "public", "t1">>}

\* --minutes values: a window already over, one of length zero, one minute
RunMinutes == {-1, 0, 1}

SeqsUpTo(S, n) == UNION {[1..k -> S] : k \in 0..n}

\* args.dblist.split(',') never yields an empty list
\* (an empty name can be one of its parts)
DbListArgs == SeqsUpTo(DBNames \cup {""}, MaxDbs) \ {<<>>}
\* the rows of the pg_database query
DiscoveredLists == {l \in SeqsUpTo(DBNames, MaxDbs) :
                      \A i, j \in 1..Len(l) : i # j => l[i] # l[j]}

\* argparse's result, restricted to the options the control flow reads
ArgSpace ==
  [ dblist_given : BOOLEAN,
    dblist : DbListArgs,
    tables_to_exclude : SUBSET {"t1"},
    exclude_table_in_database : SUBSET ExcludeArgPool,
    table : {"", "t1"},
    dry_run : BOOLEAN,
    enforcetime : BOOLEAN,
    run_min : RunMinutes,
    skip_freeze : {FALSE},
    freezeage : {10},
    minsizemb : {1} ]

\* the command lines of the runs that examine the candidate query
SelectArgs ==
  [ dblist_given : BOOLEAN,
    dblist : {<<"d1">>},
    tables_to_exclude : SUBSET {"t2"},
    exclude_table_in_database : {{}},
    table : {""},
    dry_run : BOOLEAN,
    enforcetime : {FALSE},
    run_min : {1},
    skip_freeze : BOOLEAN,
    freezeage : {10},
    minsizemb : {1} ]

----------------------------------------------------------------------------
VARIABLES
  args,                \* the parsed command line
  server,              \* the catalogs a database of the server can hold
  database_table_map,  \* database name -> tables excluded in that database
  halt_time,           \* the deadline
  now,                 \* the latest clock reading
  pc,                  \* where the script is
  dblist, dbi, db,     \* the database loop: list, next index, current name
  conn,                \* the global conn: 0 is None, else an index of connlog
  connlog,             \* every connection opened, by database name
  open,                \* the indices of connlog that are open
  tablist, ti, table,  \* the table loop: list, next index, current name
  time_exit, tabcount, dbcount, timeout_secs,
  dispatched,          \* <<db, table>> handed to the vacuum block, in order
  executed,            \* <<db, table>> for which VACUUM was sent to the server
  timeouts,            \* the values of SET statement_timeout sent, in order
  results,             \* how each vacuum block ended
  attempts,            \* the databases dbconnect was called for, in order
  skipped,             \* the databases reported as skipped (couldn't connect)
  examined,            \* <<db, table>> the table loop has looked at, in order
  table_resultset,     \* the rows of the last candidate query (the names)
  stats,               \* the catalog the last candidate query ran on
  cur, excur,          \* the connections the cursors cur and excur belong to
  cur_rows,            \* the rows of cur not fetched yet
  dispatch_conn,       \* the value of conn at each entry of dispatched
  server_results,      \* how the server ended each VACUUM sent
  pauses,              \* how many inter-operation pauses were taken
  exit_status,         \* the process status, meaningful once pc = "exited"
  exit_kind,           \* which exit was taken
  summary              \* what the final report said

vars == <<args, server, stats, database_table_map, halt_time, now, pc, dblist, dbi, db, conn,
          connlog, open, tablist, ti, table, time_exit, tabcount, dbcount,
          timeout_secs, dispatched, executed, timeouts, results, attempts,
          skipped, examined, table_resultset, cur, excur, cur_rows,
          dispatch_conn, server_results, pauses, exit_status, exit_kind,
          summary>>

loopvars == <<dblist, dbi, db, tablist, ti, table>>
counters == <<time_exit, tabcount, dbcount, timeout_secs>>
logs == <<dispatched, executed, timeouts, results, attempts, skipped,
         examined, dispatch_conn, server_results, pauses>>
connvars == <<conn, connlog, open>>
cursors == <<cur, excur, cur_rows, table_resultset, stats>>
startvars == <<args, server, database_table_map, halt_time>>

NoSummary == [printed |-> FALSE, halted |-> FALSE, tables |-> 0, dbs |-> 0]

\* the state at line 161, whatever the command line and the server
Start ==
  /\ (~args.dblist_given => args.dblist = <<"d1">>)
  /\ stats = <<>>
  /\ database_table_map = [d \in DBNames |-> {}]
  /\ halt_time = 0
  /\ now = 0
  /\ pc = "parse"
  /\ dblist = <<>> /\ dbi = 1 /\ db = ""
  /\ conn = 0 /\ connlog = <<>> /\ open = {}
  /\ tablist = <<>> /\ ti = 1 /\ table = ""
  /\ time_exit = FALSE /\ tabcount = 0 /\ dbcount = 0 /\ timeout_secs = 0
  /\ dispatched = <<>> /\ executed = <<>> /\ timeouts = <<>>
  /\ results = <<>> /\ attempts = <<>> /\ skipped = <<>> /\ examined = <<>>
  /\ table_resultset = <<>> /\ cur = 0 /\ excur = 0 /\ cur_rows = 0
  /\ dispatch_conn = <<>> /\ server_results = <<>> /\ pauses = 0
  /\ exit_status = 0 /\ exit_kind = "none"
  /\ summary = NoSummary

Init ==
  /\ args \in ArgSpace
  /\ server = MainCatalogs
  /\ Start

\* one server catalog out of all of them, for every database
InitSelect ==
  /\ args \in SelectArgs
  /\ \E c \in Catalogs : server = {c}
  /\ Start

----------------------------------------------------------------------------
(* Leaving the process *)

\* sys.exit(status), exit(status), or an exception nobody catches (status 1)
Exit(kind, status) ==
  /\ pc' = "exited"
  /\ exit_kind' = kind
  /\ exit_status' = status

\* the clock readings possible after a reading of t
ClockReads(t) == {t + j : j \in Jumps} \cap (0..MaxTime)


----------------------------------------------------------------------------
(* Startup: lines 161-234 *)

\* lines 163-174: the map built from well-formed DATABASE.TABLE values
BuildMap(elems) ==
  [d \in DBNames |-> {e[2] : e \in {x \in elems : Len(x) = 2 /\ x[1] = d}}]

\* lines 161-185: a value that does not split into two parts ends the run
\* with status 2; otherwise the deadline is fixed and SIGINT is handled
ParseArgs ==
  /\ pc = "parse"
  /\ IF \E e \in args.exclude_table_in_database : Len(e) # 2
       THEN /\ Exit("usage", 2)
            /\ UNCHANGED <<database_table_map, halt_time>>
       ELSE /\ database_table_map' = BuildMap(args.exclude_table_in_database)
            /\ halt_time' = now + (args.run_min * 60 * Resolution)
            /\ pc' = "logfile"
            /\ UNCHANGED <<exit_kind, exit_status>>
  /\ UNCHANGED <<args, server, now, loopvars, connvars, cursors, counters,
                 logs, summary>>

\* lines 188-198: a log file that cannot be opened ends the run
OpenLogFile ==
  /\ pc = "logfile"
  /\ \/ pc' = "getdbs" /\ UNCHANGED <<exit_kind, exit_status>>
     \/ Exit("startup", 1)
  /\ UNCHANGED <<startvars, now, loopvars, connvars, cursors, counters, logs,
                 summary>>

\* A connection nothing refers to any more is closed by its destructor:
\* of the connections in o, those still held by conn (c) or by the cursors
\* cur (cu) and excur (ex) stay open.  No line of the loops closes one.
StillReferenced(o, c, cu, ex) == o \cap {c, cu, ex}

\* lines 203/242 and 104-127: conn = None, then a successful dbconnect(name):
\* a new open connection becomes conn
Connected(name) ==
  /\ connlog' = Append(connlog, name)
  /\ open' = StillReferenced(open, 0, cur, excur) \cup {Len(connlog) + 1}
  /\ conn' = Len(connlog) + 1

\* lines 202-209 and 223-234: with --databases the list is the argument
\* split at commas; without, connect to "postgres" or exit 1
GetDbList ==
  /\ pc = "getdbs"
  /\ IF args.dblist_given
       THEN /\ dblist' = args.dblist
            /\ pc' = "dbloop"
            /\ UNCHANGED <<connvars, exit_kind, exit_status>>
       ELSE \/ /\ Connected("postgres")
               /\ pc' = "discover"
               /\ UNCHANGED <<dblist, exit_kind, exit_status>>
            \/ /\ Exit("startup", 1)
               /\ UNCHANGED <<dblist, connvars>>
  /\ UNCHANGED <<startvars, now, dbi, db, tablist, ti, table, cursors,
                 counters, logs, summary>>

\* lines 211-222: list the databases, close the connection (conn keeps the
\* closed object); a failing query is an uncaught exception, no database
\* at all is exit 1
Discover ==
  /\ pc = "discover"
  /\ cur' = conn
  /\ \/ \E l \in DiscoveredLists :
          /\ open' = open \ {conn}
          /\ cur_rows' = 0
          /\ IF l = <<>>
               THEN Exit("startup", 1) /\ UNCHANGED dblist
               ELSE /\ dblist' = l
                    /\ pc' = "dbloop"
                    /\ UNCHANGED <<exit_kind, exit_status>>
     \/ /\ Exit("crash_discover", 1)
        /\ UNCHANGED <<dblist, open, cur_rows>>
  /\ UNCHANGED <<startvars, now, dbi, db, conn, connlog, tablist, ti, table,
                 excur, table_resultset, stats, counters, logs, summary>>

----------------------------------------------------------------------------
(* The database loop: lines 236-314 *)

\* (variant) the database loop ignores the halt flag
BreaksOnHalt_Never == FALSE

\* line 238: the loop is left at its head once the halt flag is set
BreaksOnHalt == time_exit

\* lines 104-127 and 242-247: dbconnect either connects, or raises and
\* the database is reported as skipped with conn left None, or (lines
\* 109-110) returns None without raising when the name is empty
TryConnect(name) ==
  IF name = ""
    THEN /\ conn' = 0
         /\ open' = StillReferenced(open, 0, cur, excur)
         /\ pc' = "select"
         /\ UNCHANGED <<connlog, skipped>>
    ELSE \/ /\ Connected(name)
            /\ pc' = "select"
            /\ UNCHANGED skipped
         \/ /\ conn' = 0
            /\ open' = StillReferenced(open, 0, cur, excur)
            /\ skipped' = Append(skipped, name)
            /\ pc' = "dbloop"
            /\ UNCHANGED connlog

\* lines 236-247: the next database, or the end of the list.  dbcount is
\* incremented before the connection is attempted
DbLoop ==
  /\ pc = "dbloop"
  /\ IF dbi > Len(dblist)
       THEN /\ pc' = "cleanup"
            /\ UNCHANGED <<db, dbi, dbcount, connvars, attempts, skipped>>
       ELSE /\ db' = dblist[dbi]
            /\ dbi' = dbi + 1
            /\ IF BreaksOnHalt
                 THEN /\ pc' = "cleanup"
                      /\ UNCHANGED <<dbcount, connvars, attempts, skipped>>
                 ELSE /\ dbcount' = dbcount + 1
                      /\ attempts' = Append(attempts, dblist[dbi])
                      /\ TryConnect(dblist[dbi])
  /\ UNCHANGED <<startvars, now, dblist, tablist, ti, table, time_exit,
                 tabcount, timeout_secs, dispatched, executed, timeouts,
                 results, examined, cursors, dispatch_conn, server_results,
                 pauses, exit_status, exit_kind, summary>>

InList(x, l) == \E i \in 1..Len(l) : l[i] = x

\* (variant) the override only checks that the table is there
OverrideList_KeepsRows(rows) ==
  IF args.table = "" THEN rows
  ELSE IF InList(args.table, rows) THEN rows ELSE <<>>

\* lines 309-314: with --table the list is that one table, and a database
\* whose candidates do not hold it is left at once
OverrideList(rows) ==
  IF args.table = "" THEN rows
  ELSE IF InList(args.table, rows) THEN <<args.table>> ELSE <<>>

OverrideSkips(rows) == args.table # "" /\ ~InList(args.table, rows)

\* (variant) the rows are left in the cursor
RowsLeftAfterFetchall_None(rows) == Len(rows)

\* line 303: cur.fetchall() takes every row, none is left in cur
RowsLeftAfterFetchall(rows) == 0

\* lines 267-268, 273-274 and 295-296: the WHERE clauses on table s.
\* dead_pct > 0.05 is n_dead_tup / (n_dead_tup + n_live_tup) > 1/20
IsCandidate(s) ==
  IF args.skip_freeze
    THEN /\ s.n_dead_tup > 100
         /\ ~s.vacuumed_within_hour
         /\ 20 * s.n_dead_tup > s.n_dead_tup + s.n_live_tup
         /\ s.table_bytes >= args.minsizemb * 2^20
    ELSE /\ s.freeze_age > args.freezeage
         /\ s.table_bytes >= args.minsizemb * 2^20

\* (variant) the first ORDER BY column ascending
MetricHigher_Ascending(a, b) ==
  IF args.skip_freeze
    THEN a.n_dead_tup * (b.n_dead_tup + b.n_live_tup)
           < b.n_dead_tup * (a.n_dead_tup + a.n_live_tup)
    ELSE a.freeze_age < b.freeze_age

\* lines 275 and 297, first ORDER BY column: dead_pct DESC, freeze_age DESC
MetricHigher(a, b) ==
  IF args.skip_freeze
    THEN a.n_dead_tup * (b.n_dead_tup + b.n_live_tup)
           > b.n_dead_tup * (a.n_dead_tup + a.n_live_tup)
    ELSE a.freeze_age > b.freeze_age

\* lines 275 and 297: ORDER BY metric DESC, table_bytes DESC puts a before b
SortsBefore(a, b) ==
  \/ MetricHigher(a, b)
  \/ ~MetricHigher(b, a) /\ a.table_bytes > b.table_bytes

\* line 298: LIMIT 1000, in the freeze query only
RowLimit == 1000

RowCount(n) == IF ~args.skip_freeze /\ n > RowLimit THEN RowLimit ELSE n

\* lines 256-306: the answers the server can give on catalog c, as the
\* names in the order of the rows: the candidates in an order the ORDER BY
\* allows (rows equal in both columns come in any order), cut at the limit
tabquery(c) ==
  LET cand == {t \in DOMAIN c : IsCandidate(c[t])}
      sorted == {l \in [1..Cardinality(cand) -> cand] :
                   \A i, j \in 1..Cardinality(cand) :
                     i < j => /\ l[i] # l[j]
                              /\ ~SortsBefore(c[l[j]], c[l[i]])}
  IN  {SubSeq(l, 1, RowCount(Len(l))) : l \in sorted}

\* lines 249-314: session settings and the candidate query, neither inside
\* a try: an error of either is an uncaught exception, and so is
\* conn.cursor() when conn is None.  The rows are the server's answer.
SelectTables ==
  /\ pc = "select"
  /\ \/ /\ conn # 0
        /\ cur' = conn
        /\ open' = StillReferenced(open, conn, conn, excur)
        /\ \E c \in server : \E rows \in tabquery(c) :
             /\ stats' = c
             /\ table_resultset' = rows
             /\ cur_rows' = RowsLeftAfterFetchall(rows)
             /\ tablist' = OverrideList(rows)
             /\ ti' = 1
             /\ pc' = IF OverrideSkips(rows) THEN "dbloop" ELSE "tabloop"
             /\ UNCHANGED <<exit_kind, exit_status>>
     \/ /\ conn # 0
        /\ cur' = conn
        /\ open' = StillReferenced(open, conn, conn, excur)
        /\ Exit("crash_query", 1)
        /\ UNCHANGED <<tablist, ti, table_resultset, stats, cur_rows>>
     \/ /\ conn = 0
        /\ Exit("crash_noname", 1)
        /\ UNCHANGED <<tablist, ti, table_resultset, stats, cur_rows, cur,
                       open>>
  /\ UNCHANGED <<startvars, now, dblist, dbi, db, table, conn, connlog, excur,
                 counters, logs, summary>>

----------------------------------------------------------------------------
(* The table loop: lines 318-394 *)

\* (variant) a DATABASE.TABLE exclusion applied whatever the database
ExcludedInDatabase_Any(d, t) == \E x \in DBNames : t \in database_table_map[x]

\* line 324: --exclude-table-in-database, for the database being processed
ExcludedInDatabase(d, t) == t \in database_table_map[d]

\* (variant) the --exclude-table test dropped
ExcludedEverywhere_Never(t) == FALSE

\* line 327: --exclude-table, in any database
ExcludedEverywhere(t) == t \in args.tables_to_exclude

isExcluded(d, t) == ExcludedInDatabase(d, t) \/ ExcludedEverywhere(t)

\* (variant) the deadline itself still counts as inside the window
shouldHalt_Strict(t) == t > halt_time

\* line 335: the halt decision, on the clock reading t
shouldHalt(t) == t >= halt_time

\* Python's int(): the fraction n/d of a second cut off towards zero
IntOf(n, d) == IF n >= 0 THEN n \div d ELSE -((-n) \div d)

\* (variant) the timeout without the 30 seconds of grace
TimeoutSecs_NoGrace(t) == IntOf(halt_time - t, Resolution)

\* line 343: the enforced statement timeout, from a second clock reading t
TimeoutSecs(t) == IntOf(halt_time - t, Resolution) + 30

\* how the statements of lines 359-379 can end: the VACUUM completes, is
\* cancelled for the lock timeout, or fails otherwise
ExecOutcomes == {"ok", "lock_timeout", "error"}

\* (variant) only the lock-timeout branch exits
ExceptExits_LockOnly(o) == o = "lock_timeout"

\* lines 382-392: sys.exit(1) closes the except block, whichever message
\* was printed before it
ExceptExits(o) == o \in {"lock_timeout", "error"}

\* (variant) the --dry-run test dropped
SkipsExecution_Never == FALSE

\* line 358: --dry-run sends nothing to the server
SkipsExecution == args.dry_run

\* (variant) the table is counted only once its operation has ended well
CountedBeforeOperation_Not == tabcount

\* line 340: tabcount += 1, in the else of the halt check
CountedBeforeOperation == tabcount + 1

\* lines 369-379, after a VACUUM that completed: print the notices (a for
\* loop over the list conn.notices), then fetch a row from cur, the cursor
\* of the candidate query: no row ends the loop; a row is printed and then
\* sleep(5), a name the script never defines, raises NameError into the
\* except block of line 382
DrainLoop(rows_left) == IF rows_left = 0 THEN "ok" ELSE "error"

\* lines 340-394 for table t: count, compute the timeout from the reading
\* t2, and unless --dry-run send the timeout and the VACUUM through a new
\* cursor excur; the server ends the VACUUM as o
VacuumBlock(t, t2, o) ==
  /\ tabcount' = CountedBeforeOperation
  /\ timeout_secs' = IF args.enforcetime THEN TimeoutSecs(t2) ELSE timeout_secs
  /\ now' = t2
  /\ dispatched' = Append(dispatched, <<db, t>>)
  /\ dispatch_conn' = Append(dispatch_conn, conn)
  /\ excur' = conn
  /\ open' = StillReferenced(open, conn, cur, conn)
  /\ IF SkipsExecution
       THEN /\ results' = Append(results, "dry_run")
            /\ pc' = "pause"
            /\ UNCHANGED <<executed, timeouts, server_results, exit_kind,
                           exit_status>>
       ELSE /\ timeouts' = Append(timeouts, IF args.enforcetime
                                              THEN TimeoutSecs(t2) ELSE 0)
            /\ executed' = Append(executed, <<db, t>>)
            /\ server_results' = Append(server_results, o)
            /\ LET r == IF o = "ok" THEN DrainLoop(cur_rows) ELSE o
               IN  /\ results' = Append(results, r)
                   /\ IF r # "ok" /\ ExceptExits(r)
                        THEN Exit("fatal", 1)
                        ELSE /\ pc' = "pause"
                             /\ UNCHANGED <<exit_kind, exit_status>>
  /\ UNCHANGED time_exit

\* lines 318-394: one iteration of the table loop, or its end
TableStep ==
  /\ pc = "tabloop"
  /\ IF ti > Len(tablist)
       THEN /\ pc' = "dbloop"
            /\ UNCHANGED <<now, ti, table, counters, dispatched, executed,
                           timeouts, results, examined, dispatch_conn,
                           server_results, excur, open, exit_kind,
                           exit_status>>
       ELSE /\ ti' = ti + 1
            /\ table' = tablist[ti]
            /\ examined' = Append(examined, <<db, tablist[ti]>>)
            /\ IF isExcluded(db, tablist[ti])
                 THEN UNCHANGED <<now, pc, counters, dispatched, executed,
                                  timeouts, results, dispatch_conn,
                                  server_results, excur, open, exit_kind,
                                  exit_status>>
                 ELSE \E t1 \in ClockReads(now) :
                        IF shouldHalt(t1)
                          THEN /\ time_exit' = TRUE
                               /\ now' = t1
                               /\ pc' = "dbloop"
                               /\ UNCHANGED <<tabcount, dbcount, timeout_secs,
                                              dispatched, executed, timeouts,
                                              results, dispatch_conn,
                                              server_results, excur, open,
                                              exit_kind, exit_status>>
                          ELSE \E t2 \in (IF args.enforcetime
                                            THEN ClockReads(t1) ELSE {t1}),
                                  o \in (IF SkipsExecution
                                           THEN {"ok"} ELSE ExecOutcomes) :
                                 /\ VacuumBlock(tablist[ti], t2, o)
                                 /\ UNCHANGED dbcount
  /\ UNCHANGED <<startvars, dblist, dbi, db, tablist, conn, connlog, cur,
                 cur_rows, table_resultset, stats, attempts, skipped, pauses,
                 summary>>

\* line 394: time.sleep(args.pause_time), then the next table
Pause ==
  /\ pc = "pause"
  /\ pauses' = pauses + 1
  /\ pc' = "tabloop"
  /\ UNCHANGED <<startvars, now, loopvars, connvars, cursors, counters,
                 dispatched, executed, timeouts, results, attempts, skipped,
                 examined, dispatch_conn, server_results, exit_status,
                 exit_kind, summary>>

----------------------------------------------------------------------------
(* After the loops: lines 396-408 *)

\* line 396: conn.close(); when conn is None that is an AttributeError
\* nobody catches
Cleanup ==
  /\ pc = "cleanup"
  /\ IF conn = 0
       THEN Exit("crash_close", 1) /\ UNCHANGED open
       ELSE /\ open' = open \ {conn}
            /\ pc' = "summary"
            /\ UNCHANGED <<exit_kind, exit_status>>
  /\ UNCHANGED <<startvars, now, loopvars, conn, connlog, cursors, counters,
                 logs, summary>>

\* (variant) a halted run reports failure
SummaryStatus_HaltedFails == IF time_exit THEN 1 ELSE 0

\* line 408: the status after the report, halted or not
SummaryStatus == 0

\* lines 400-408: the report and sys.exit(0)
Summary ==
  /\ pc = "summary"
  /\ summary' = [printed |-> TRUE, halted |-> time_exit,
                 tables |-> tabcount, dbs |-> dbcount]
  /\ Exit("summary", SummaryStatus)
  /\ UNCHANGED <<startvars, now, loopvars, connvars, cursors, counters,
                 logs>>

----------------------------------------------------------------------------
(* SIGINT: lines 129-137, installed at line 185 *)

\* the handler closes conn when it is not None and exits 0
Interrupt ==
  /\ pc \notin {"parse", "exited"}
  /\ open' = open \ {conn}
  /\ Exit("interrupt", 0)
  /\ UNCHANGED <<startvars, now, loopvars, conn, connlog, cursors, counters,
                 logs, summary>>

----------------------------------------------------------------------------
Next ==
  \/ ParseArgs
  \/ OpenLogFile
  \/ GetDbList
  \/ Discover
  \/ DbLoop
  \/ SelectTables
  \/ TableStep
  \/ Pause
  \/ Cleanup
  \/ Summary
  \/ Interrupt

Spec == Init /\ [][Next]_vars

\* the same script on every catalog, with the command line held narrow
SpecSelect == InitSelect /\ [][Next]_vars

----------------------------------------------------------------------------
(* Properties *)

Last(l) == l[Len(l)]

\* the exclusion rules as the command line states them
GloballyExcluded(t) == t \in args.tables_to_exclude
ScopedExcluded(d, t) == <<d, t>> \in args.exclude_table_in_database

\* the number of databases a connection was opened to
ConnectedCount == Len(attempts) - Len(skipped)
                    - Cardinality({i \in 1..Len(attempts) : attempts[i] = ""})

\* C1: once time_exit is true it stays true, and no later step dispatches
\* an operation, sends a statement, or tries or opens a connection; the
\* script is only on its way through the final close and the summary.
C1_HaltIsFinal ==
  [][time_exit =>
       /\ time_exit'
       /\ dispatched' = dispatched /\ executed' = executed
       /\ timeouts' = timeouts
       /\ attempts' = attempts /\ connlog' = connlog
       /\ pc' \in {"dbloop", "cleanup", "summary", "exited"}]_vars

\* C1 witness: a halted run that reported, with a database never attempted
C1_Witness ==
  /\ time_exit /\ summary.printed
  /\ Len(attempts) < Len(dblist)

\* C2: the operation on a table ending in the lock-timeout error does not
\* terminate the run: the run goes on to the pause and the next candidate.
C2_LockTimeoutSkips ==
  \A i \in 1..Len(results) :
    results[i] = "lock_timeout" => exit_kind # "fatal"

\* C3: an operation error other than lock-timeout ends the run at once:
\* it is the last operation dispatched, the process has exited with a
\* non-zero status, and no summary was printed.
C3_ErrorIsFatal ==
  \A i \in 1..Len(results) :
    results[i] = "error" =>
      /\ i = Len(dispatched)
      /\ pc = "exited" /\ exit_kind = "fatal" /\ exit_status # 0
      /\ ~summary.printed

\* C3 witness: the error struck while candidates and databases remained
C3_Witness ==
  /\ results # <<>> /\ Last(results) = "error"
  /\ pc = "exited"
  /\ ti <= Len(tablist) /\ dbi <= Len(dblist)

\* C4: no operation is dispatched, and no statement sent, for a table named
\* by --exclude-table, in any database, with or without --table.
C4_GlobalExclusion ==
  /\ \A i \in 1..Len(dispatched) : ~GloballyExcluded(dispatched[i][2])
  /\ \A i \in 1..Len(executed) : ~GloballyExcluded(executed[i][2])

\* C4 witness: --table names a globally excluded table, the candidates
\* held it, and the table loop has passed over it
C4_Witness ==
  /\ args.table = "t1" /\ GloballyExcluded("t1")
  /\ examined # <<>> /\ Last(examined)[2] = "t1"
  /\ tablist = <<"t1">> /\ ti = 2

\* C5: a table excluded for a database is never dispatched there, and a
\* candidate not excluded for the database being processed nor globally is
\* dispatched by the iteration that examines it, whatever other databases
\* exclude it, unless that iteration decides to halt (or SIGINT arrives).
C5_ScopedExclusion ==
  [][/\ \A i \in 1..Len(dispatched') :
          ~ScopedExcluded(dispatched'[i][1], dispatched'[i][2])
     /\ ( /\ pc = "tabloop" /\ ti <= Len(tablist)
          /\ ~ScopedExcluded(db, tablist[ti])
          /\ ~GloballyExcluded(tablist[ti])
          /\ ~time_exit' /\ exit_kind' # "interrupt" )
        => dispatched' = Append(dispatched, <<db, tablist[ti]>>)]_vars

\* C5 witness: t1 is excluded in d1 only; d1 offered it and did not run it,
\* d2 ran it
C5_Witness ==
  /\ ScopedExcluded("d1", "t1") /\ ~ScopedExcluded("d2", "t1")
  /\ \E i \in 1..Len(examined) : examined[i] = <<"d1", "t1">>
  /\ \E i \in 1..Len(dispatched) : dispatched[i] = <<"d2", "t1">>

\* C6 (as stated): with the window over at start, nothing is dispatched and
\* the summary reports zero tables and halted.
C6_PastDeadlineHalted ==
  (args.run_min <= 0 /\ summary.printed) =>
    /\ dispatched = <<>>
    /\ summary.tables = 0
    /\ summary.halted

\* a candidate the exclusion filter let through
SomeCandidatePassed ==
  \E i \in 1..Len(examined) :
    /\ ~ScopedExcluded(examined[i][1], examined[i][2])
    /\ ~GloballyExcluded(examined[i][2])

\* C6 (amended): with the window over at start, nothing is dispatched or
\* counted, and the summary reports zero tables; it reports halted exactly
\* when some candidate passed the exclusion filter.
C6_PastDeadline ==
  args.run_min <= 0 =>
    /\ dispatched = <<>> /\ executed = <<>> /\ tabcount = 0
    /\ summary.printed =>
         /\ summary.tables = 0
         /\ summary.halted <=> SomeCandidatePassed

\* C6 witness: a summary after a run that halted on its first candidate
C6_Witness ==
  /\ args.run_min <= 0 /\ summary.printed /\ summary.halted
  /\ summary.tables = 0 /\ examined # <<>>

\* C7: with --dry-run no VACUUM and no statement timeout is ever sent; and
\* in either mode an iteration that neither halts nor is excluded counts
\* its table and hands it to the vacuum block, any other counts nothing, so
\* that dry-run runs and all-successful real runs count alike.
C7_DryRun ==
  [][/\ args.dry_run => (executed' = <<>> /\ timeouts' = <<>>)
     /\ ( /\ pc = "tabloop" /\ ti <= Len(tablist)
          /\ exit_kind' \notin {"interrupt", "fatal"} )
        => LET passes == /\ ~ScopedExcluded(db, tablist[ti])
                         /\ ~GloballyExcluded(tablist[ti])
                         /\ ~time_exit'
           IN  /\ tabcount' = tabcount + (IF passes THEN 1 ELSE 0)
               /\ dispatched' = IF passes
                                  THEN Append(dispatched, <<db, tablist[ti]>>)
                                  ELSE dispatched
               /\ pc' = IF passes THEN "pause"
                        ELSE IF time_exit' THEN "dbloop" ELSE "tabloop"
               /\ ~args.dry_run =>
                    executed' = IF passes
                                  THEN Append(executed, <<db, tablist[ti]>>)
                                  ELSE executed]_vars

\* C7 witness: a dry run that reported two tables over two databases
C7_Witness ==
  /\ args.dry_run /\ summary.printed /\ summary.tables = 2
  /\ Len(connlog) = 2 /\ executed = <<>>

\* C8: when a connection fails and nothing else goes wrong (no fatal table
\* error, no failed query, no empty name, no SIGINT), the run ends with the
\* summary and status 0.
C8_ConnectFailureSkips ==
  ( /\ pc = "exited" /\ skipped # <<>>
    /\ exit_kind \notin {"interrupt", "fatal", "crash_query", "crash_noname"} )
  => (summary.printed /\ exit_status = 0)

\* C9: the summary's database count is the number of databases connected to.
C9_CountsConnected ==
  summary.printed => summary.dbs = ConnectedCount

\* C10 (as stated): a halted run exits with a non-zero status.
C10_HaltedNonZero ==
  (pc = "exited" /\ summary.printed /\ summary.halted) => exit_status # 0

\* C10 (amended): a run that reaches the summary exits with status 0 whether
\* it halted or completed; only the run-fatal table error (status 1) differs.
C10_HaltedExitsZero ==
  /\ (pc = "exited" /\ summary.printed) => exit_status = 0
  /\ (pc = "exited" /\ exit_kind = "fatal") => exit_status = 1

\* C10 witness: a halted run that has exited
C10_Witness ==
  /\ pc = "exited" /\ summary.printed /\ summary.halted
  /\ exit_status = 0

\* the connection conn has had an operation dispatched on it
DispatchedOn(c) == \E i \in 1..Len(dispatch_conn) : dispatch_conn[i] = c

\* C11: with --table, a database whose candidate rows lack the table is left
\* at once, nothing dispatched on its connection, and the run goes on at the
\* head of the database loop; a database whose rows hold it gets the
\* one-element list, and every dispatch is the first on its connection and
\* is on that table.
C11_SingleTableOverride ==
  [][args.table # "" =>
       /\ (pc = "select" /\ pc' # "exited") =>
            IF InList(args.table, table_resultset')
              THEN tablist' = <<args.table>> /\ pc' = "tabloop"
              ELSE /\ pc' = "dbloop" /\ dbi' = dbi
                   /\ dispatched' = dispatched /\ ~DispatchedOn(conn)
       /\ dispatched' # dispatched =>
            /\ Last(dispatched') = <<db, args.table>>
            /\ InList(args.table, table_resultset)
            /\ ~DispatchedOn(conn)]_vars

\* C11 witness: the first database was connected to and left with no table
\* examined, the second got its one operation
C11_Witness ==
  /\ args.table # "" /\ Len(connlog) = 2
  /\ dispatch_conn = <<2>> /\ Len(examined) = 1
  /\ pc = "pause"

\* C12: whatever the server answers to the session settings and the
\* candidate query of a connected database, the run goes on, into the table
\* loop or to the next database: short of SIGINT the step never leaves the
\* process.
C12_QueryErrorSkipsDatabase ==
  [][(pc = "select" /\ conn # 0 /\ exit_kind' # "interrupt")
       => pc' \in {"tabloop", "dbloop"}]_vars

\* operation attempts that ended in success (real or dry-run) or in a
\* lock-timeout skip
AttemptsOwedAPause ==
  Cardinality({i \in 1..Len(results) :
                 results[i] \in {"ok", "dry_run", "lock_timeout"}})

\* C13: every operation attempt that ended in success or in a lock timeout
\* is followed by the pause before anything else happens: unless SIGINT ended
\* the run, the pauses taken, plus the one about to be taken, are as many as
\* those attempts.
C13_PauseAfterEveryAttempt ==
  exit_kind # "interrupt" =>
    AttemptsOwedAPause = pauses + (IF pc = "pause" THEN 1 ELSE 0)

\* k is the number of whole seconds in d ticks, the fraction dropped
\* towards zero
WholeSeconds(k, d) ==
  IF d >= 0 THEN k * Resolution <= d /\ d < (k + 1) * Resolution
            ELSE k <= 0 /\ (k - 1) * Resolution < d /\ d <= k * Resolution

\* C14: every step that sends a VACUUM sends exactly one SET
\* statement_timeout with it, on the connection the VACUUM goes to: 0 when
\* --enforce-time is off, and otherwise 30 more than the whole seconds
\* between the clock reading of that step and the deadline, whatever an
\* earlier operation was given.
C14_TimeoutSetBeforeVacuum ==
  [][executed' # executed =>
       /\ Len(executed') = Len(executed) + 1
       /\ Len(timeouts') = Len(timeouts) + 1
       /\ Len(timeouts') = Len(executed')
       /\ excur' = conn /\ Last(dispatch_conn') = conn
       /\ IF args.enforcetime
            THEN WholeSeconds(Last(timeouts') - 30, halt_time - now')
            ELSE Last(timeouts') = 0]_vars

\* C14 witness: two VACUUMs sent under --enforce-time, the second with a
\* smaller timeout than the first
C14_Witness ==
  /\ args.enforcetime /\ Len(executed) = 2
  /\ timeouts[2] < timeouts[1]

\* C15: a run ended by SIGINT has exited with the handler's status and has
\* left none of the connections it opened open.
C15_InterruptClosesConnections ==
  exit_kind = "interrupt" =>
    /\ pc = "exited" /\ exit_status = 0
    /\ open = {}

\* table a's priority metric is at least table b's: the transaction-ID age
\* when freezing, the fraction of dead rows with --no-freeze
MetricAtLeast(a, b) ==
  IF args.skip_freeze
    THEN a.n_dead_tup * (b.n_dead_tup + b.n_live_tup)
           >= b.n_dead_tup * (a.n_dead_tup + a.n_live_tup)
    ELSE a.freeze_age >= b.freeze_age

\* a may come before b: no lower metric, and no smaller when the metrics
\* are equal
InPriorityOrder(a, b) ==
  /\ MetricAtLeast(a, b)
  /\ MetricAtLeast(b, a) => a.table_bytes >= b.table_bytes

\* the operations dispatched on the connection of the last candidate query
DispatchedHere == {i \in 1..Len(dispatched) : dispatch_conn[i] = cur}

\* C16: the rows of the candidate query are in priority order; the
\* operations dispatched in that database are in the order of the rows
\* (hence in priority order, size breaking ties); and when freezing, each
\* dispatched table is older than --freezeage and no smaller than
\* --minsizemb megabytes.
C16_DispatchOrder ==
  /\ \A p, q \in 1..Len(table_resultset) :
       p < q => InPriorityOrder(stats[table_resultset[p]],
                                stats[table_resultset[q]])
  /\ \A i, j \in DispatchedHere :
       i < j =>
         /\ \E p, q \in 1..Len(table_resultset) :
              /\ p < q
              /\ table_resultset[p] = dispatched[i][2]
              /\ table_resultset[q] = dispatched[j][2]
         /\ InPriorityOrder(stats[dispatched[i][2]], stats[dispatched[j][2]])
  /\ \A i \in DispatchedHere :
       /\ InList(dispatched[i][2], table_resultset)
       /\ ~args.skip_freeze =>
            /\ stats[dispatched[i][2]].freeze_age > args.freezeage
            /\ 2^20 * args.minsizemb <= stats[dispatched[i][2]].table_bytes

\* C16 witness: three candidates, the first of them excluded, the other two
\* equal in the metric and dispatched larger first
C16_Witness ==
  /\ Len(table_resultset) = 3 /\ DispatchedHere = {1, 2}
  /\ table_resultset[1] \in args.tables_to_exclude
  /\ MetricAtLeast(stats[dispatched[1][2]], stats[dispatched[2][2]])
  /\ MetricAtLeast(stats[dispatched[2][2]], stats[dispatched[1][2]])
  /\ stats[dispatched[1][2]].table_bytes > stats[dispatched[2][2]].table_bytes

\* the operations that finished successfully, really or as a dry run
Completed ==
  Cardinality({i \in 1..Len(results) : results[i] \in {"ok", "dry_run"}})

C18_DrainLoopEnds ==
  [][(server_results' # server_results /\ Last(server_results') = "ok") =>
       /\ cur_rows = 0
       /\ Len(results') = Len(results) + 1 /\ Last(results') = "ok"
       /\ pc' = "pause"]_vars

\* C18 witness: a completed VACUUM in a database whose candidate query
\* returned two rows, the script at the pause
C18_Witness ==
  /\ pc = "pause" /\ Len(table_resultset) = 2
  /\ server_results # <<>> /\ Last(server_results) = "ok"
  /\ Last(results) = "ok"

\* C19: at most one connection is open at any time, and none once the
\* final close has been passed.
C19_OneConnectionAtATime ==
  /\ Cardinality(open) <= 1
  /\ (pc = "summary" \/ summary.printed) => open = {}

\* C20: under --enforce-time every statement timeout sent is at least 30
\* seconds, and none is larger than the one before it.
C20_EnforcedTimeoutAtLeastGrace ==
  args.enforcetime =>
    /\ \A i \in 1..Len(timeouts) : timeouts[i] >= 30
    /\ \A i, j \in 1..Len(timeouts) : i < j => timeouts[j] <= timeouts[i]

=============================================================================
